---- MODULE Spec2Model ----
(***************************************************************************)
(* A model of the generative temporal-convolution network (src/model.py)   *)
(* and of its training / sampling driver (src/gen.py).                     *)
(*                                                                         *)
(* Four specifications share the variables below:                          *)
(*   SpecForward  GEN.forward, layer by layer, on two inputs at once       *)
(*   SpecLoss     the input/target pairing of train() and evaluate()       *)
(*   SpecTrain    the epoch loop of __main__ with its KeyboardInterrupt    *)
(*   SpecSample   sample()                                                 *)
(*                                                                         *)
(* A tensor along the sequence axis is a sequence, 1-indexed here where    *)
(* Python is 0-indexed.  The value held at one position of an activation   *)
(* is the set of <<input position, token>> entries it is computed from:    *)
(* a convolution tap, the gate, the residual addition and the decoder all  *)
(* combine the entries of the positions they read.  Two activations are    *)
(* equal for all weights exactly when these sets are equal.                *)
(***************************************************************************)
EXTENDS Integers, Sequences, FiniteSets, TLC

VARIABLES
    ksize, n_levels,                       \* args.ksize, args.levels
    fpc, xa, xb, ha, hb, level,            \* GEN.forward
    lpc, data, final_output, final_target, \* train()/evaluate() batch
    tpc, epoch, batch, best_vloss, val_loss, ckpt, params, loaded,
    saved, seen, intr_at, err,             \* epoch loop
    spc, i, input, word, n, ss, lss, smi, mol, exc  \* sample()

cfgvars == <<ksize, n_levels>>
fvars == <<fpc, xa, xb, ha, hb, level>>
lvars == <<lpc, data, final_output, final_target>>
tvars == <<tpc, epoch, batch, best_vloss, val_loss, ckpt, params, loaded,
           saved, seen, intr_at, err>>
svars == <<spc, i, input, word, n, ss, lss, smi, mol, exc>>
vars == <<cfgvars, fvars, lvars, tvars, svars>>

(***************************************************************************)
(* Bounds of the model.                                                    *)
(***************************************************************************)
MaxKSize == 3
MaxLevels == 2
MaxLen == 3
NWords == 3

KSizes == 1..MaxKSize
Levels == 1..MaxLevels
Tokens == 0..(NWords - 1)

RECURSIVE Pow2(_)
Pow2(e) == IF e = 0 THEN 1 ELSE 2 * Pow2(e - 1)

RECURSIVE SeqsOfLen(_, _)
SeqsOfLen(S, len) ==
    IF len = 0 THEN {<<>>}
    ELSE {Append(s, e) : s \in SeqsOfLen(S, len - 1), e \in S}

SeqsUpTo(S, len) == UNION {SeqsOfLen(S, l) : l \in 1..len}

(***************************************************************************)
(* src/model.py                                                            *)
(***************************************************************************)
Failed == [ok |-> FALSE, v |-> <<>>]
\* a tensor, held as a tuple of its positions
Tensor(s) == [ok |-> TRUE, v |-> SubSeq(s, 1, Len(s))]

\* nn.Conv1d(stride=1, padding, dilation): zero padding on both sides, tap j
\* of output position t reads padded position t + j*dilation.
ConvOutLen(len, kernel_size, dilation, padding) ==
    len + 2 * padding - dilation * (kernel_size - 1)

Conv(x, kernel_size, dilation, padding) ==
    LET Padded(q) == IF q - padding \in 1..Len(x) THEN x[q - padding] ELSE {}
    IN  IF Len(x) + 2 * padding < dilation * (kernel_size - 1) + 1
        THEN Failed
        ELSE Tensor([t \in 1..ConvOutLen(Len(x), kernel_size, dilation, padding)
                       |-> UNION {Padded(t + j * dilation) : j \in 0..(kernel_size - 1)}])

\* a faulty variant of TrimTrailing: y[:, :, padding:], the leading positions cut
TrimLeading(y, padding) ==
    IF Len(y) <= padding THEN <<>> ELSE SubSeq(y, padding + 1, Len(y))

\* y[:, :, :-padding]: the slice [:-0] is [:0], the empty tensor.
TrimTrailing(y, padding) ==
    IF padding = 0 \/ Len(y) <= padding THEN <<>>
    ELSE SubSeq(y, 1, Len(y) - padding)

\* out + x with broadcasting along the sequence axis.
ResidualAdd(out, x) ==
    IF Len(out) = Len(x) THEN Tensor([t \in 1..Len(x) |-> out[t] \cup x[t]])
    ELSE IF Len(x) = 1 THEN Tensor([t \in 1..Len(out) |-> out[t] \cup x[1]])
    ELSE IF Len(out) = 1 THEN Tensor([t \in 1..Len(x) |-> out[1] \cup x[t]])
    ELSE Failed

\* ConvLayer.forward; the GLU, the (inference-mode) dropout and the 1x1
\* projection act position by position.
ConvLayer(x, kernel_size, dilation, padding) ==
    LET y == Conv(x, kernel_size, dilation, padding)
    IN  IF ~y.ok THEN Failed
        ELSE LET out == IF dilation # padding THEN TrimTrailing(y.v, padding)
                        ELSE y.v
             IN  ResidualAdd(out, x)

\* GenEncoder.__init__: layer i has dilation 2^i, padding (kernel_size-1)*2^i.
Dilation(lv) == Pow2(lv)
Padding(kernel_size, lv) == (kernel_size - 1) * Pow2(lv)

EncoderLayer(x, kernel_size, lv) ==
    ConvLayer(x, kernel_size, Dilation(lv), Padding(kernel_size, lv))

\* self.emb(input): position t holds the embedding of token input[t].
Embed(inp) == [t \in 1..Len(inp) |-> {<<t, inp[t]>>}]

\* self.decoder: a Linear applied to each position.
Decode(y) == [t \in 1..Len(y) |-> y[t]]

RECURSIVE Encoder(_, _, _, _)
Encoder(x, kernel_size, levels, lv) ==
    IF lv = levels THEN Tensor(x)
    ELSE LET r == EncoderLayer(x, kernel_size, lv)
         IN  IF r.ok THEN Encoder(r.v, kernel_size, levels, lv + 1) ELSE Failed

\* GEN.forward as a function, for the callers in gen.py.
GENForward(inp, kernel_size, levels) ==
    LET y == Encoder(Embed(inp), kernel_size, levels, 0)
    IN  IF y.ok THEN Tensor(Decode(y.v)) ELSE Failed

(***************************************************************************)
(* Values of the variables of the parts a specification does not run.      *)
(***************************************************************************)
ForwardIdle ==
    /\ fpc = "idle" /\ xa = <<>> /\ xb = <<>> /\ ha = <<>> /\ hb = <<>>
    /\ level = 0

LossIdle ==
    /\ lpc = "idle" /\ data = <<>> /\ final_output = <<>> /\ final_target = <<>>

NoCheckpoint == [kind |-> "absent", params |-> 0, vloss |-> 0]

TrainIdle ==
    /\ tpc = "idle" /\ epoch = 0 /\ batch = 0 /\ best_vloss = 0 /\ val_loss = 0
    /\ ckpt = NoCheckpoint /\ params = 0 /\ loaded = NoCheckpoint
    /\ saved = <<>> /\ seen = <<>> /\ intr_at = "none" /\ err = "none"

SampleIdle ==
    /\ spc = "idle" /\ i = 0 /\ input = <<>> /\ word = <<>> /\ n = 0
    /\ ss = <<>> /\ lss = 0 /\ smi = {} /\ mol = "unset" /\ exc = "none"

\* argparse: --ksize and --levels are any positive integers.
ConfigInit == ksize \in KSizes /\ n_levels \in Levels

(***************************************************************************)
(* SpecForward: GEN.forward in inference mode on two inputs xa, xb of the  *)
(* same length, xb being xa with the token of one position changed.        *)
(***************************************************************************)
ChangedAt(x, pos, tok) == [x EXCEPT ![pos] = tok]

ForwardInit ==
    /\ ConfigInit
    /\ fpc = "emb"
    /\ xa \in SeqsUpTo(Tokens, MaxLen)
    /\ \E pos \in 1..MaxLen, tok \in Tokens :
          /\ pos <= Len(xa)
          /\ tok # xa[pos]
          /\ xb = ChangedAt(xa, pos, tok)
    /\ ha = <<>> /\ hb = <<>> /\ level = 0
    /\ LossIdle /\ TrainIdle /\ SampleIdle

\* emb = self.drop(self.emb(input)); emb.transpose(1, 2)
FEmbed ==
    /\ fpc = "emb"
    /\ ha' = Embed(xa)
    /\ hb' = Embed(xb)
    /\ level' = 0
    /\ fpc' = "enc"
    /\ UNCHANGED <<xa, xb, cfgvars, lvars, tvars, svars>>

\* one layer of self.network (nn.Sequential); a shape error raises.
FEncoderLayer ==
    /\ fpc = "enc"
    /\ level < n_levels
    /\ LET ra == EncoderLayer(ha, ksize, level)
           rb == EncoderLayer(hb, ksize, level)
       IN  IF ra.ok /\ rb.ok
           THEN /\ ha' = ra.v
                /\ hb' = rb.v
                /\ level' = level + 1
                /\ fpc' = "enc"
           ELSE /\ fpc' = "error"
                /\ UNCHANGED <<ha, hb, level>>
    /\ UNCHANGED <<xa, xb, cfgvars, lvars, tvars, svars>>

\* o = self.decoder(y.transpose(1, 2)); return o.contiguous()
FDecode ==
    /\ fpc = "enc"
    /\ level = n_levels
    /\ ha' = Decode(ha)
    /\ hb' = Decode(hb)
    /\ fpc' = "done"
    /\ UNCHANGED <<xa, xb, level, cfgvars, lvars, tvars, svars>>

ForwardNext == FEmbed \/ FEncoderLayer \/ FDecode

SpecForward == ForwardInit /\ [][ForwardNext]_vars

(***************************************************************************)
(* SpecLoss: one batch of train() (lines 19-28) or evaluate() (44-52).     *)
(* data is a batch of sequences of one length L >= 2, each starting with   *)
(* the start token and ending with the terminator.                         *)
(***************************************************************************)
MaxBatch == 2

\* idx2word (data/opv_dic.pt): one character per token; the start symbol
\* "&" has index 1, as sample() takes it to have
Symbols == <<"\n", "&", "C", "O", "N", "S", "F">>
Idx2Word(t) == Symbols[t + 1]

\* torch.ones(1, 1): the token sample() starts from
StartToken == 1

\* the token whose character is the newline
TermToken == CHOOSE t \in 0..(Len(Symbols) - 1) : Idx2Word(t) = "\n"

\* a faulty variant of Targets: data[:, :-1], the targets not shifted
TargetsUnshifted(d) == [b \in 1..Len(d) |-> SubSeq(d[b], 1, Len(d[b]) - 1)]

\* targets = data[:, 1:]
Targets(d) == [b \in 1..Len(d) |-> SubSeq(d[b], 2, Len(d[b]))]

\* inputs = data[:, :-1]
Inputs(d) == [b \in 1..Len(d) |-> SubSeq(d[b], 1, Len(d[b]) - 1)]

\* the n_words logits of one position, all computed from the same activation
LogitRow(act) == SubSeq([v \in 1..NWords |-> <<act, v - 1>>], 1, NWords)

\* output = model(inputs): shape (batch, length, n_words)
RECURSIVE ModelRows(_)
ModelRows(inputs) ==
    IF inputs = <<>> THEN Tensor(<<>>)
    ELSE LET r == GENForward(Head(inputs), ksize, n_levels)
             more == ModelRows(Tail(inputs))
         IN  IF r.ok /\ more.ok
             THEN Tensor(<<[t \in 1..Len(r.v) |-> LogitRow(r.v[t])]>> \o more.v)
             ELSE Failed

Model(inputs) == ModelRows(inputs)

\* .contiguous(): the elements in row-major order
RECURSIVE Contiguous(_)
Contiguous(rows) ==
    IF rows = <<>> THEN <<>> ELSE Head(rows) \o Contiguous(Tail(rows))

\* .view(-1, n_words) of a (batch, length, n_words) tensor
ViewRows(out, n_words) ==
    LET flat == Contiguous(Contiguous(out))
        rows == Len(flat) \div n_words
    IN  SubSeq([r \in 1..rows |->
                   SubSeq(flat, (r - 1) * n_words + 1, r * n_words)], 1, rows)

\* .view(-1) of a (batch, length) tensor
ViewFlat(t) == Contiguous(t)

DataRows(len) ==
    {<<StartToken>> \o body \o <<TermToken>> : body \in SeqsOfLen(Tokens, len - 2)}

Batches ==
    UNION {SeqsOfLen(DataRows(len), bsz) : len \in 2..MaxLen, bsz \in 1..MaxBatch}

LossInit ==
    /\ ConfigInit
    /\ lpc \in {"train", "evaluate"}
    /\ data \in Batches
    /\ final_output = <<>> /\ final_target = <<>>
    /\ ForwardIdle /\ TrainIdle /\ SampleIdle

\* lines 20-28 / 45-52 up to the criterion, which needs one target per row;
\* train() goes on to loss.backward(), evaluate() to total_loss += loss.item()
BatchLoss(then) ==
    LET output == Model(Inputs(data))
    IN  IF ~output.ok
        THEN /\ lpc' = "raised"
             /\ UNCHANGED <<final_output, final_target>>
        ELSE /\ final_output' = ViewRows(output.v, NWords)
             /\ final_target' = ViewFlat(Targets(data))
             /\ lpc' = IF Len(final_output') = Len(final_target')
                       THEN then ELSE "raised"

TrainBatch ==
    /\ lpc = "train"
    /\ BatchLoss("backward")
    /\ UNCHANGED <<data, cfgvars, fvars, tvars, svars>>

EvaluateBatch ==
    /\ lpc = "evaluate"
    /\ BatchLoss("total_loss")
    /\ UNCHANGED <<data, cfgvars, fvars, tvars, svars>>

LossNext == TrainBatch \/ EvaluateBatch

SpecLoss == LossInit /\ [][LossNext]_vars

(***************************************************************************)
(* SpecTrain: lines 139-165 of gen.py, from best_vloss = 100 to the test   *)
(* evaluation.  tpc names the statement about to run.  A KeyboardInterrupt *)
(* is raised by the interpreter between any two statements of the try      *)
(* block.  The checkpoint file may be there from an earlier run.           *)
(***************************************************************************)
Sentinel == 100
Epochs == 3
NumBatches == 2
LossSpan == 2

LossVals == (Sentinel - LossSpan)..(Sentinel + 1)

StaleCheckpoint == [kind |-> "stale", params |-> 0, vloss |-> 0]

TryPcs == {"for", "train", "zero_grad", "forward", "backward", "step",
           "evaluate", "sched", "cmp", "save", "update"}

\* a faulty variant of Improved: val_loss <= best_vloss
ImprovedOrEqual(v, best) == v <= best

\* if val_loss < best_vloss
Improved(v, best) == v < best

\* output = model(inputs) and the criterion on a training batch
TrainForwardOK ==
    LET r == GENForward([t \in 1..MaxLen |-> StartToken], ksize, n_levels)
    IN  r.ok /\ Len(r.v) = MaxLen

TrainInit ==
    /\ ConfigInit
    /\ tpc = "for" /\ epoch = 0 /\ batch = 0
    /\ best_vloss = Sentinel /\ val_loss = 0
    /\ ckpt \in {NoCheckpoint, StaleCheckpoint}
    /\ params = 0 /\ loaded = NoCheckpoint
    /\ saved = <<>> /\ seen = <<>> /\ intr_at = "none" /\ err = "none"
    /\ ForwardIdle /\ LossIdle /\ SampleIdle

others == <<cfgvars, fvars, lvars, svars>>

\* for epoch in range(1, args.epochs + 1)
EpochLoop ==
    /\ tpc = "for"
    /\ IF epoch < Epochs
       THEN /\ epoch' = epoch + 1
            /\ batch' = 0
            /\ tpc' = "train"
       ELSE /\ tpc' = "load"
            /\ UNCHANGED <<epoch, batch>>
    /\ UNCHANGED <<best_vloss, val_loss, ckpt, params, loaded, saved, seen,
                   intr_at, err, others>>

\* train(): for data, label in train_iter, with the two slices
TrainFetch ==
    /\ tpc = "train"
    /\ tpc' = IF batch < NumBatches THEN "zero_grad" ELSE "evaluate"
    /\ UNCHANGED <<epoch, batch, best_vloss, val_loss, ckpt, params, loaded,
                   saved, seen, intr_at, err, others>>

\* optimizer.zero_grad()
ZeroGrad ==
    /\ tpc = "zero_grad"
    /\ tpc' = "forward"
    /\ UNCHANGED <<epoch, batch, best_vloss, val_loss, ckpt, params, loaded,
                   saved, seen, intr_at, err, others>>

\* output = model(inputs) ... loss = criterion(...); a shape error is a
\* RuntimeError, which the except clause does not catch
TrainForward ==
    /\ tpc = "forward"
    /\ IF TrainForwardOK
       THEN /\ tpc' = "backward"
            /\ err' = err
       ELSE /\ tpc' = "aborted"
            /\ err' = "RuntimeError"
    /\ UNCHANGED <<epoch, batch, best_vloss, val_loss, ckpt, params, loaded,
                   saved, seen, intr_at, others>>

\* loss.backward()
Backward ==
    /\ tpc = "backward"
    /\ tpc' = "step"
    /\ UNCHANGED <<epoch, batch, best_vloss, val_loss, ckpt, params, loaded,
                   saved, seen, intr_at, err, others>>

\* optimizer.step(); total_loss += loss.item()
OptimizerStep ==
    /\ tpc = "step"
    /\ params' = params + 1
    /\ batch' = batch + 1
    /\ tpc' = "train"
    /\ UNCHANGED <<epoch, best_vloss, val_loss, ckpt, loaded, saved, seen,
                   intr_at, err, others>>

\* val_loss = evaluate(val_iter)
Evaluate ==
    /\ tpc = "evaluate"
    /\ \E v \in LossVals :
          /\ val_loss' = v
          /\ seen' = Append(seen, v)
    /\ tpc' = "sched"
    /\ UNCHANGED <<epoch, batch, best_vloss, ckpt, params, loaded, saved,
                   intr_at, err, others>>

\* scheduler.step(val_loss) and the prints; the scheduler's own state is not
\* read by the loop
SchedulerStep ==
    /\ tpc = "sched"
    /\ tpc' = "cmp"
    /\ UNCHANGED <<epoch, batch, best_vloss, val_loss, ckpt, params, loaded,
                   saved, seen, intr_at, err, others>>

\* if val_loss < best_vloss:
Compare ==
    /\ tpc = "cmp"
    /\ tpc' = IF Improved(val_loss, best_vloss) THEN "save" ELSE "for"
    /\ UNCHANGED <<epoch, batch, best_vloss, val_loss, ckpt, params, loaded,
                   saved, seen, intr_at, err, others>>

\* torch.save(model.state_dict(), ...)
Save ==
    /\ tpc = "save"
    /\ ckpt' = [kind |-> "run", params |-> params, vloss |-> val_loss]
    /\ saved' = Append(saved, val_loss)
    /\ tpc' = "update"
    /\ UNCHANGED <<epoch, batch, best_vloss, val_loss, params, loaded, seen,
                   intr_at, err, others>>

\* best_vloss = val_loss
Update ==
    /\ tpc = "update"
    /\ best_vloss' = val_loss
    /\ tpc' = "for"
    /\ UNCHANGED <<epoch, batch, val_loss, ckpt, params, loaded, saved, seen,
                   intr_at, err, others>>

\* KeyboardInterrupt raised inside the try block
Interrupt ==
    /\ tpc \in TryPcs
    /\ intr_at' = tpc
    /\ tpc' = "except"
    /\ UNCHANGED <<epoch, batch, best_vloss, val_loss, ckpt, params, loaded,
                   saved, seen, err, others>>

\* except KeyboardInterrupt: two prints
Except ==
    /\ tpc = "except"
    /\ tpc' = "load"
    /\ UNCHANGED <<epoch, batch, best_vloss, val_loss, ckpt, params, loaded,
                   saved, seen, intr_at, err, others>>

\* model.load_state_dict(torch.load(path), strict=True): no file raises
\* FileNotFoundError; a file of an earlier run loads when its keys match
LoadCheckpoint ==
    /\ tpc = "load"
    /\ \/ /\ ckpt.kind = "absent"
          /\ tpc' = "aborted"
          /\ err' = "FileNotFoundError"
          /\ UNCHANGED <<loaded, params>>
       \/ /\ ckpt.kind = "stale"
          /\ tpc' = "aborted"
          /\ err' = "RuntimeError"
          /\ UNCHANGED <<loaded, params>>
       \/ /\ ckpt.kind # "absent"
          /\ loaded' = ckpt
          /\ params' = ckpt.params
          /\ tpc' = "test"
          /\ err' = err
    /\ UNCHANGED <<epoch, batch, best_vloss, val_loss, ckpt, saved, seen,
                   intr_at, others>>

\* test_loss = evaluate(test_iter)
TestEvaluate ==
    /\ tpc = "test"
    /\ IF TrainForwardOK
       THEN /\ tpc' = "tested"
            /\ err' = err
       ELSE /\ tpc' = "aborted"
            /\ err' = "RuntimeError"
    /\ UNCHANGED <<epoch, batch, best_vloss, val_loss, ckpt, params, loaded,
                   saved, seen, intr_at, others>>

TrainNext ==
    \/ EpochLoop \/ TrainFetch \/ ZeroGrad \/ TrainForward \/ Backward
    \/ OptimizerStep \/ Evaluate \/ SchedulerStep \/ Compare \/ Save
    \/ Update \/ Interrupt \/ Except \/ LoadCheckpoint \/ TestEvaluate

SpecTrain == TrainInit /\ [][TrainNext]_vars

(***************************************************************************)
(* SpecSample: sample(idx2word, smi, num_samples), lines 58-83 of gen.py.  *)
(* i counts the iterations of the for loop that are complete.  A string    *)
(* is the sequence of its characters.  mol is what Chem.MolFromSmiles      *)
(* returned for the sample at hand: a molecule ("mol") or None ("none").   *)
(***************************************************************************)
NumSamples == 2
MaxInputLen == 3
PrintEvery == 10000

Last(s) == s[Len(s)]
Range(s) == {s[k] : k \in 1..Len(s)}

\* the strings with at most one character before the newline
ShortStrings == {<<"\n">>} \cup {<<Idx2Word(t), "\n">> : t \in Tokens \ {TermToken}}

\* smi = open(...).readlines()
Corpora == {{}, ShortStrings} \cup {{s} : s \in ShortStrings}

SampleInit ==
    /\ ConfigInit
    /\ spc = "for" /\ i = 0 /\ input = <<>> /\ word = <<>>
    /\ n = 0 /\ ss = <<>> /\ lss = 0
    /\ smi \in Corpora
    /\ mol = "unset" /\ exc = "none"
    /\ ForwardIdle /\ LossIdle /\ TrainIdle

rest == <<cfgvars, fvars, lvars, tvars>>

\* a faulty variant of InitialInput: the input of the sample before is kept
InitialInputKept(prev) == IF prev = <<>> THEN <<StartToken>> ELSE prev

\* input = torch.ones(1, 1, dtype=torch.long)
InitialInput(prev) == <<StartToken>>

\* word[-1] != '\n'
Unfinished(w) == Last(w) # "\n"

\* a faulty variant of IsNew: word[1:] not in smi, ss not looked at
IsNewInCorpusOnly(str, corpus, found) == str \notin corpus

\* if word[1:] not in smi and word[1:] not in ss
IsNew(str, corpus, found) == str \notin corpus /\ str \notin Range(found)

\* if bool(m): n += 1
Count(cnt, m) == IF m = "mol" THEN cnt + 1 ELSE cnt

\* if bool(m): ...; if word[1:] not in smi and word[1:] not in ss: ss += [word[1:]]
Record(found, str, corpus, m) ==
    IF m = "mol" /\ IsNew(str, corpus, found) THEN Append(found, str) ELSE found

\* for i in range(num_samples): ... ; print(n / num_samples); return ss
SampleFor ==
    /\ spc = "for"
    /\ IF i < NumSamples
       THEN /\ input' = InitialInput(input)
            /\ word' = <<"&">>
            /\ spc' = "while"
       ELSE /\ spc' = "done"
            /\ UNCHANGED <<input, word>>
    /\ UNCHANGED <<i, n, ss, lss, smi, mol, exc, rest>>

\* one iteration of the while loop: the model on the whole input, a draw
\* from the softmax of the last row, the token and its character appended.
\* A draw other than the terminator is followed only while the finished
\* sequence can still have at most MaxInputLen tokens.
SampleStep ==
    /\ spc = "while"
    /\ Unfinished(word)
    /\ LET output == GENForward(input, ksize, n_levels)
       IN  IF ~output.ok
           THEN /\ spc' = "raised"
                /\ exc' = "RuntimeError"
                /\ UNCHANGED <<input, word>>
           ELSE IF Len(output.v) = 0
           THEN /\ spc' = "raised"
                /\ exc' = "IndexError"
                /\ UNCHANGED <<input, word>>
           ELSE /\ \E word_id \in Tokens :
                     /\ word_id = TermToken \/ Len(input) + 1 < MaxInputLen
                     /\ input' = Append(input, word_id)
                     /\ word' = Append(word, Idx2Word(word_id))
                /\ UNCHANGED <<spc, exc>>
    /\ UNCHANGED <<i, n, ss, lss, smi, mol, rest>>

\* the while condition is false
SampleLoopExit ==
    /\ spc = "while"
    /\ ~Unfinished(word)
    /\ spc' = "check"
    /\ UNCHANGED <<i, input, word, n, ss, lss, smi, mol, exc, rest>>

\* Chem.MolFromSmiles(word[1:]) returns a molecule, returns None, or raises
SampleOracle ==
    /\ spc = "check"
    /\ \E ans \in {"mol", "none", "raise"} :
          IF ans = "raise"
          THEN /\ spc' = "raised"
               /\ exc' = "oracle"
               /\ mol' = mol
          ELSE /\ mol' = ans
               /\ spc' = "record"
               /\ exc' = exc
    /\ UNCHANGED <<i, input, word, n, ss, lss, smi, rest>>

\* lines 75-81 after the oracle's answer
SampleRecord ==
    /\ spc = "record"
    /\ n' = Count(n, mol)
    /\ ss' = Record(ss, Tail(word), smi, mol)
    /\ lss' = IF i # 0 /\ i % PrintEvery = 0 THEN Len(ss') ELSE lss
    /\ i' = i + 1
    /\ mol' = "unset"
    /\ spc' = "for"
    /\ UNCHANGED <<input, word, smi, exc, rest>>

SampleNext ==
    SampleFor \/ SampleStep \/ SampleLoopExit \/ SampleOracle \/ SampleRecord

SpecSample == SampleInit /\ [][SampleNext]_vars

(***************************************************************************)
(* Properties.                                                             *)
(***************************************************************************)
NoDuplicates(s) == \A a, b \in 1..Len(s) : a # b => s[a] # s[b]

StrictlyDecreasing(s) == \A k \in 1..(Len(s) - 1) : s[k + 1] < s[k]

MinOf(S) == CHOOSE m \in S : \A x \in S : m <= x

\* the losses a run saves: each one strictly below everything before it
RECURSIVE SavedOf(_, _)
SavedOf(losses, best) ==
    IF losses = <<>> THEN <<>>
    ELSE IF Head(losses) < best
         THEN <<Head(losses)>> \o SavedOf(Tail(losses), Head(losses))
         ELSE SavedOf(Tail(losses), best)

\* C1: at every point of sample(), ss holds no string of the reference
\* corpus smi and no string twice, and len(ss) <= valid samples <= samples
\* completed <= num_samples; and ss changes only by appending the decoded
\* string of the sample at hand, and only when the validity oracle has
\* returned a molecule for it.
C1_GeneratedSet ==
    /\ [](/\ Range(ss) \cap smi = {}
          /\ NoDuplicates(ss)
          /\ Len(ss) <= n /\ n <= i /\ i <= NumSamples)
    /\ [][ss' # ss => /\ mol = "mol"
                      /\ ss' = Append(ss, Tail(word))
                      /\ i' = i + 1]_vars

\* C1 witness: sampling is over, every sample was valid, the corpus is
\* empty, and only one string was kept: the later ones were duplicates.
C1_Witness ==
    /\ spc = "done" /\ smi = {} /\ n = NumSamples /\ Len(ss) = 1

\* C2: causality of GEN.forward.  With xa and xb agreeing before position
\* pos, the activations (after every layer, and the logits) agree at every
\* position before pos; and what position t holds is computed from input
\* positions <= t only.  The two runs fail together or not at all.
C2_Causality ==
    fpc \in {"enc", "done"} =>
        /\ Len(ha) = Len(hb)
        /\ \A pos \in 1..Len(xa) :
              (\A q \in 1..(pos - 1) : xa[q] = xb[q]) =>
                  \A t \in 1..Len(ha) : t < pos => ha[t] = hb[t]
        /\ \A t \in 1..Len(ha) : \A e \in ha[t] : e[1] <= t

\* C2 witness: a three-token input changed at its second position, kernel
\* size 3, two levels: the logits agree at position 1, differ at position
\* 2, and the logits at position 3 reach back to position 1.
C2_Witness ==
    /\ fpc = "done" /\ ksize = 3 /\ n_levels = 2 /\ Len(xa) = 3
    /\ xa[1] = xb[1] /\ xa[2] # xb[2]
    /\ ha[1] = hb[1] /\ ha[2] # hb[2]
    /\ <<1, xa[1]>> \in ha[3]

\* C3: for every kernel size >= 1, every level and every input length, a
\* ConvLayer returns a tensor of the length of its input, so that
\* GEN.forward returns logits of the length of its input (and does not raise).
C3_LengthPreserved ==
    /\ fpc # "error"
    /\ fpc \in {"enc", "done"} => Len(ha) = Len(xa)

\* C4: the while loop of a sample is cut off: with a cutoff of CutoffLen
\* tokens, a sequence that has reached that length without the terminator
\* is not fed to the model again (kernel size 3, so that the forward pass
\* itself does not raise).
CutoffLen == 2

C4_StepLoopBounded ==
    (spc = "while" /\ Unfinished(word) /\ ksize = 3) => Len(input) < CutoffLen

\* C5: an exception of the validity oracle does not leave sample(): the
\* sample counts as invalid and the loop goes on (kernel size 3).
C5_OracleExceptionContained ==
    ksize = 3 => ~(spc = "raised" /\ exc = "oracle")

\* C6: after a KeyboardInterrupt anywhere in the epoch loop (kernel size 3,
\* so that the forward pass itself does not raise) no further epoch is
\* started, the process does not abort, and the test evaluation runs on
\* the parameters saved with the lowest validation loss of this run.
C6_InterruptRecovered ==
    (intr_at # "none" /\ ksize = 3) =>
        /\ tpc \in {"except", "load", "test", "tested"}
        /\ tpc \in {"test", "tested"} =>
              /\ loaded.kind = "run"
              /\ saved # <<>>
              /\ loaded.vloss = MinOf(Range(saved))

\* C7: the saved validation losses are strictly decreasing; at every epoch
\* boundary best_vloss is the minimum of the sentinel and the validation
\* losses seen, and the losses saved are exactly those that were strictly
\* below everything before them; the checkpoint holds the last one saved.
C7_BestCheckpoint ==
    /\ StrictlyDecreasing(saved)
    /\ ckpt.kind = "run" => (saved # <<>> /\ ckpt.vloss = Last(saved))
    /\ (tpc = "for" \/ (intr_at = "none" /\ tpc \in {"load", "test", "tested"})) =>
          /\ best_vloss = MinOf({Sentinel} \cup Range(seen))
          /\ saved = SavedOf(seen, Sentinel)

\* C7 witness: an epoch boundary after three epochs of which two saved.
C7_Witness ==
    /\ tpc = "for" /\ Len(seen) = 3 /\ Len(saved) = 2

\* C8: with B sequences of length L in the batch, there are B*(L-1) logit
\* rows and as many targets; row (b-1)*(L-1)+p holds the n_words logits
\* computed from tokens 1..p of sequence b (token p among them) and is
\* paired with token p+1 of sequence b.
C8_ShiftedAlignment ==
    lpc \in {"backward", "total_loss"} =>
        LET B == Len(data)
            L == Len(data[1])
        IN  /\ Len(final_output) = B * (L - 1)
            /\ Len(final_target) = B * (L - 1)
            /\ \A b \in 1..B, p \in 1..(L - 1) :
                  LET r == (b - 1) * (L - 1) + p
                  IN  /\ final_target[r] = data[b][p + 1]
                      /\ Len(final_output[r]) = NWords
                      /\ \A v \in 1..NWords :
                            /\ final_output[r][v][2] = v - 1
                            /\ <<p, data[b][p]>> \in final_output[r][v][1]
                            /\ final_output[r][v][1] \subseteq
                                  {<<q, data[b][q]>> : q \in 1..p}

\* C8 witness: a training batch of two different sequences of length 3.
C8_Witness ==
    /\ lpc = "backward" /\ Len(data) = 2 /\ Len(data[1]) = 3
    /\ data[1] # data[2]

\* C9: a sample that has left the while loop starts with the start token,
\* ends with the terminator and holds the terminator nowhere else (so it
\* has at least 2 tokens, and exactly 2 when the first draw is the
\* terminator); inside the loop the sequence starts with the start token,
\* is as long as the word, and holds no terminator before its last token.
C9_SampleWellFormed ==
    /\ spc \in {"while", "check", "record"} =>
          /\ Len(input) >= 1 /\ Len(input) = Len(word)
          /\ input[1] = StartToken
          /\ \A k \in 1..(Len(input) - 1) : input[k] # TermToken
    /\ spc \in {"check", "record"} =>
          /\ Len(input) >= 2
          /\ Last(input) = TermToken
          /\ input[2] = TermToken => Len(input) = 2

\* C9 witness: the second sample has left the loop with three tokens.
C9_Witness ==
    /\ spc = "check" /\ i = 1 /\ Len(input) = 3

\* C10: a KeyboardInterrupt does not take effect inside a batch (after
\* zero_grad and before the end of optimizer.step) nor between the
\* checkpoint write and the update of best_vloss (kernel size 3).
C10_EpochBoundaryOnly ==
    ksize = 3 => intr_at \notin {"forward", "backward", "step", "update"}

====
